---- MODULE Spec2Model ----
(***************************************************************************)
(* DiGraph<N, E> of src/src/digraph.rs: a directed graph stored as a hash  *)
(* map from node to a vector of (target, weight) pairs.                    *)
(*                                                                         *)
(* The graph is a function whose domain is the set of keys of the map and  *)
(* whose values are sequences of <<target, weight>> pairs (the Vec<(N,E)>).*)
(* Every method is an operator on graphs that is computed as the code      *)
(* computes it; the actions apply one method to the graph held in `nodes`  *)
(* and record the call, the graph before it and the value it returned.     *)
(***************************************************************************)
EXTENDS Integers, Sequences, FiniteSets, TLC

\* Node identifiers 1..NumNodes are the values of N the callers use.
NumNodes == 2

\* The longest call sequence explored from the empty graph.
MaxOps == 3

Node == 1..NumNodes

\* Edge weights (E): opaque values, as in the "x", "y" of the scenarios.
Weight == {"x", "y"}

\* Option<T>: None is the empty tuple, Some(v) the one-element tuple.
None == << >>

Some(v) == <<v>>

VARIABLES
    nodes,  \* self.nodes: HashMap<N, Vec<(N, E)>>
    prev,   \* the value of self.nodes before the last call
    op,     \* the last call: [name, a, b, w]
    ret,    \* what the last call returned (bool, N or Option<E>)
    out,    \* the graph the last call returned, when it was reversed()
    nops,   \* number of calls made so far
    written \* history (kept under SpecHistory): the (a, b, w) for which
            \* add_edge(a, b, w) returned true with no remove_edge(a, b),
            \* remove_node(a), remove_node(b) or edge_mut(a, b) call since,
            \* as of before the last call

vars == <<nodes, prev, op, ret, out, nops, written>>

----------------------------------------------------------------------------
(* HashMap and Vec primitives *)

\* HashMap::new()
EmptyMap == [n \in {} |-> << >>]

\* HashMap::insert(k, v): sets the value of k, replacing any old value.
insert(m, k, v) == [x \in (DOMAIN m) \cup {k} |-> IF x = k THEN v ELSE m[x]]

\* HashMap::remove(k)
remove(m, k) == [x \in (DOMAIN m) \ {k} |-> m[x]]

\* edges.iter().position(|&(elt, _)| elt == b): index of the first entry
\* whose target is b, 0 when there is none.
position(edges, b) ==
    IF \E i \in 1..Len(edges) : edges[i][1] = b
    THEN CHOOSE i \in 1..Len(edges) :
            /\ edges[i][1] = b
            /\ \A j \in 1..(i - 1) : edges[j][1] # b
    ELSE 0

\* swap_remove that drops the last element whatever the index.
swap_remove_pop(edges, index) ==
    [j \in 1..(Len(edges) - 1) |-> edges[j]]

\* Vec::swap_remove(index): the last element takes the place of the removed
\* one and the vector shrinks by one.
swap_remove(edges, index) ==
    [j \in 1..(Len(edges) - 1) |->
        IF j = index THEN edges[Len(edges)] ELSE edges[j]]

----------------------------------------------------------------------------
(* The methods of DiGraph, as functions from a graph to [g, ret] *)

new == EmptyMap

contains_node(g, n) == n \in DOMAIN g

contains_edge(g, a, b) ==
    IF a \notin DOMAIN g THEN FALSE
    ELSE \E i \in 1..Len(g[a]) : g[a][i][1] = b

\* edges(from): the adjacency vector, empty when from is absent.
edges(g, from) == IF from \in DOMAIN g THEN g[from] ELSE << >>

\* edge(a, b): the weight of the first entry of a's vector whose target is b.
edge(g, a, b) ==
    IF a \notin DOMAIN g THEN None
    ELSE LET i == position(g[a], b)
         IN IF i = 0 THEN None ELSE Some(g[a][i][2])

\* neighbors that stops one entry short of the end.
neighbors_short(g, from) ==
    [i \in 1..(Len(edges(g, from)) - 1) |-> edges(g, from)[i][1]]

\* neighbors(from): edges(from) mapped through fst.
neighbors(g, from) ==
    [i \in 1..Len(edges(g, from)) |-> edges(g, from)[i][1]]

\* edge_mut that takes the first entry of a's vector when one goes to b.
edge_mut_first(g, a, b) ==
    IF a \notin DOMAIN g THEN None
    ELSE IF position(g[a], b) = 0 THEN None ELSE Some(1)

\* edge_mut(a, b): the place of the weight it returns a &mut to, as the index
\* into a's vector of the first entry whose target is b.
edge_mut(g, a, b) ==
    IF a \notin DOMAIN g THEN None
    ELSE LET i == position(g[a], b)
         IN IF i = 0 THEN None ELSE Some(i)

\* A write of w through the view edge_mut(a, b) returned.
write_weight(g, a, view, w) ==
    IF view = None THEN g ELSE [g EXCEPT ![a][view[1]][2] = w]

\* edges_mut(from): the places of the &mut (N, E) it yields, as the indices
\* into from's vector; none when from is absent.
edges_mut(g, from) ==
    IF from \in DOMAIN g THEN [i \in 1..Len(g[from]) |-> i] ELSE << >>

\* Writes through the views edges_mut(from) yielded: each view is a &mut to
\* the whole (target, weight) pair, so entry views[i] can become any pair.
write_entries(g, from, views, entries) ==
    IF from \in DOMAIN g
    THEN [g EXCEPT ![from] = [i \in 1..Len(views) |-> entries[views[i]]]]
    ELSE g

\* add_node that only resets a node that is a key and adds none.
add_node_existing_only(g, n) ==
    [g |-> IF n \in DOMAIN g THEN insert(g, n, << >>) ELSE g, ret |-> n]

add_node(g, n) == [g |-> insert(g, n, << >>), ret |-> n]

\* remove_node that empties every vector that has an entry to n.
remove_node_clears(g, n) ==
    IF n \notin DOMAIN g THEN [g |-> g, ret |-> FALSE]
    ELSE LET g1 == remove(g, n)
         IN [g |-> [x \in DOMAIN g1 |->
                      IF position(g1[x], n) # 0 THEN << >> ELSE g1[x]],
             ret |-> TRUE]

\* remove_node that removes the key and leaves the other vectors alone.
remove_node_no_scan(g, n) ==
    IF n \notin DOMAIN g THEN [g |-> g, ret |-> FALSE]
    ELSE [g |-> remove(g, n), ret |-> TRUE]

remove_node(g, n) ==
    IF n \notin DOMAIN g THEN [g |-> g, ret |-> FALSE]
    ELSE LET g1 == remove(g, n)
         IN [g |-> [x \in DOMAIN g1 |->
                      LET index == position(g1[x], n)
                      IN IF index # 0 THEN swap_remove(g1[x], index)
                                      ELSE g1[x]],
             ret |-> TRUE]

\* add_edge that makes b a key the way add_node does, with insert.
add_edge_resets_target(g, a, b, w) ==
    LET g1 == insert(g, b, << >>)
    IN IF a \in DOMAIN g1
       THEN IF position(g1[a], b) = 0
            THEN [g |-> [g1 EXCEPT ![a] = Append(g1[a], <<b, w>>)],
                  ret |-> TRUE]
            ELSE [g |-> g1, ret |-> FALSE]
       ELSE [g |-> insert(g1, a, << <<b, w>> >>), ret |-> TRUE]

\* add_edge that pushes without looking for an entry to b.
add_edge_always_push(g, a, b, w) ==
    LET g1 == IF b \in DOMAIN g THEN g ELSE insert(g, b, << >>)
    IN IF a \in DOMAIN g1
       THEN [g |-> [g1 EXCEPT ![a] = Append(g1[a], <<b, w>>)], ret |-> TRUE]
       ELSE [g |-> insert(g1, a, << <<b, w>> >>), ret |-> TRUE]

\* add_edge without the first match: the endpoint b is not made a key.
add_edge_no_target(g, a, b, w) ==
    IF a \in DOMAIN g
    THEN IF position(g[a], b) = 0
         THEN [g |-> [g EXCEPT ![a] = Append(g[a], <<b, w>>)], ret |-> TRUE]
         ELSE [g |-> g, ret |-> FALSE]
    ELSE [g |-> insert(g, a, << <<b, w>> >>), ret |-> TRUE]

add_edge(g, a, b, w) ==
    LET g1 == IF b \in DOMAIN g THEN g ELSE insert(g, b, << >>)
    IN IF a \in DOMAIN g1
       THEN IF position(g1[a], b) = 0
            THEN [g |-> [g1 EXCEPT ![a] = Append(g1[a], <<b, w>>)],
                  ret |-> TRUE]
            ELSE [g |-> g1, ret |-> FALSE]
       ELSE [g |-> insert(g1, a, << <<b, w>> >>), ret |-> TRUE]

\* remove_edge that drops the key a when its vector becomes empty.
remove_edge_drops_empty(g, a, b) ==
    IF a \in DOMAIN g
    THEN LET index == position(g[a], b)
         IN IF index # 0
            THEN [g |-> IF Len(g[a]) = 1 THEN remove(g, a)
                        ELSE [g EXCEPT ![a] = swap_remove(g[a], index)],
                  ret |-> Some(g[a][index][2])]
            ELSE [g |-> g, ret |-> None]
    ELSE [g |-> g, ret |-> None]

\* remove_edge that returns the weight of the entry that was last in the
\* vector, not of the one swap_remove took out.
remove_edge_returns_last(g, a, b) ==
    IF a \in DOMAIN g
    THEN LET index == position(g[a], b)
         IN IF index # 0
            THEN [g |-> [g EXCEPT ![a] = swap_remove(g[a], index)],
                  ret |-> Some(g[a][Len(g[a])][2])]
            ELSE [g |-> g, ret |-> None]
    ELSE [g |-> g, ret |-> None]

remove_edge(g, a, b) ==
    IF a \in DOMAIN g
    THEN LET index == position(g[a], b)
         IN IF index # 0
            THEN [g |-> [g EXCEPT ![a] = swap_remove(g[a], index)],
                  ret |-> Some(g[a][index][2])]
            ELSE [g |-> g, ret |-> None]
    ELSE [g |-> g, ret |-> None]

\* add_diedge with `||`: the second add_edge runs only when the first
\* returned false.
add_diedge_short_circuit(g, a, b, w) ==
    LET r1 == add_edge(g, a, b, w)
        r2 == add_edge(r1.g, b, a, w)
    IN IF r1.ret THEN r1 ELSE [g |-> r2.g, ret |-> r2.ret]

\* add_diedge with `&`: true only when both edges were new.
add_diedge_and(g, a, b, w) ==
    LET r1 == add_edge(g, a, b, w)
        r2 == add_edge(r1.g, b, a, w)
    IN [g |-> r2.g, ret |-> (r1.ret /\ r2.ret)]

\* `|` is not short-circuiting: both add_edge calls run, left one first.
add_diedge(g, a, b, w) ==
    LET r1 == add_edge(g, a, b, w)
        r2 == add_edge(r1.g, b, a, w)
    IN [g |-> r2.g, ret |-> (r1.ret \/ r2.ret)]

\* The inner loop of reversed() with the endpoints not swapped.
RECURSIVE reversed_edges_unswapped(_, _, _, _)
reversed_edges_unswapped(acc, node, es, i) ==
    IF i > Len(es) THEN acc
    ELSE reversed_edges_unswapped(add_edge(acc, node, es[i][1], es[i][2]).g,
                                  node, es, i + 1)

\* The inner loop of reversed(): the edges of `node`, in vector order.
RECURSIVE reversed_edges(_, _, _, _)
reversed_edges(acc, node, es, i) ==
    IF i > Len(es) THEN acc
    ELSE reversed_edges(add_edge(acc, es[i][1], node, es[i][2]).g,
                        node, es, i + 1)

\* The outer loop of reversed(): the keys in the order self.nodes() yields.
RECURSIVE reversed_nodes(_, _, _, _)
reversed_nodes(acc, g, order, k) ==
    IF k > Len(order) THEN acc
    ELSE reversed_nodes(reversed_edges(acc, order[k], edges(g, order[k]), 1),
                        g, order, k + 1)

\* reversed() that starts from the keys of g, as a clone would.
reversed_keeps_nodes(g, order) ==
    reversed_nodes([n \in DOMAIN g |-> << >>], g, order, 1)

\* reversed(), for one enumeration order of the hash map's keys.
reversed(g, order) == reversed_nodes(new, g, order, 1)

\* The orders in which HashMap::keys() may yield the keys of g.
KeyOrders(g) ==
    {s \in [1..Cardinality(DOMAIN g) -> DOMAIN g] :
        \A i, j \in DOMAIN s : i # j => s[i] # s[j]}

----------------------------------------------------------------------------
(* The calls a client makes *)

NoOp == [name |-> "new", a |-> 0, b |-> 0, w |-> ""]

Init ==
    /\ nodes = new
    /\ prev = new
    /\ op = NoOp
    /\ ret = None
    /\ out = new
    /\ nops = 0
    /\ written = {}

\* `written` after the call o, which returned r.
Written(S, o, r) ==
    CASE o.name = "add_edge" /\ r = TRUE -> S \cup {<<o.a, o.b, o.w>>}
      [] o.name = "remove_edge" -> {t \in S : ~(t[1] = o.a /\ t[2] = o.b)}
      [] o.name = "remove_node" -> {t \in S : t[1] # o.a /\ t[2] # o.a}
      [] o.name = "edge_mut" -> {t \in S : ~(t[1] = o.a /\ t[2] = o.b)}
      [] o.name = "edges_mut" -> {t \in S : t[1] # o.a}
      [] OTHER -> S

\* What the call o does to the graph g and what it returns, for the methods
\* whose result is a bool, a node or an Option<E>.
Apply(o, g) ==
    CASE o.name = "add_node" -> add_node(g, o.a)
      [] o.name = "remove_node" -> remove_node(g, o.a)
      [] o.name = "add_edge" -> add_edge(g, o.a, o.b, o.w)
      [] o.name = "remove_edge" -> remove_edge(g, o.a, o.b)
      [] o.name = "add_diedge" -> add_diedge(g, o.a, o.b, o.w)
      [] o.name = "contains_edge" -> [g |-> g, ret |-> contains_edge(g, o.a, o.b)]
      [] o.name = "edge" -> [g |-> g, ret |-> edge(g, o.a, o.b)]

\* One call; `out` holds a graph only right after reversed(), and `written`
\* follows the calls only where the history is kept.
Called(keep, name, a, b, w, r, o) ==
    /\ written' = IF keep THEN Written(written, op, ret) ELSE written
    /\ nops' = nops + 1
    /\ prev' = nodes
    /\ op' = [name |-> name, a |-> a, b |-> b, w |-> w]
    /\ nodes' = r.g
    /\ ret' = r.ret
    /\ out' = o

AddNode(keep) ==
    /\ nops < MaxOps
    /\ \E n \in Node :
          Called(keep, "add_node", n, 0, "", add_node(nodes, n), new)

RemoveNode(keep) ==
    /\ nops < MaxOps
    /\ \E n \in Node :
          Called(keep, "remove_node", n, 0, "", remove_node(nodes, n), new)

AddEdge(keep) ==
    /\ nops < MaxOps
    /\ \E a \in Node, b \in Node, w \in Weight :
          Called(keep, "add_edge", a, b, w, add_edge(nodes, a, b, w), new)

RemoveEdge(keep) ==
    /\ nops < MaxOps
    /\ \E a \in Node, b \in Node :
          Called(keep, "remove_edge", a, b, "", remove_edge(nodes, a, b), new)

AddDiedge(keep) ==
    /\ nops < MaxOps
    /\ \E a \in Node, b \in Node, w \in Weight :
          Called(keep, "add_diedge", a, b, w, add_diedge(nodes, a, b, w), new)

\* reversed() borrows self immutably and returns a new graph.
Reversed(keep) ==
    /\ nops < MaxOps
    /\ \E order \in KeyOrders(nodes) :
          Called(keep, "reversed", 0, 0, "", [g |-> nodes, ret |-> None],
                 reversed(nodes, order))

\* g.reversed().reversed(): reversed() called on the graph the last call
\* returned. `prev` is then the graph the call was made on, `nodes` still g.
ReversedAgain(keep) ==
    /\ nops < MaxOps
    /\ op.name = "reversed"
    /\ \E order \in KeyOrders(out) :
          /\ nops' = nops + 1
          /\ prev' = out
          /\ op' = [name |-> "reversed.reversed", a |-> 0, b |-> 0, w |-> ""]
          /\ out' = reversed(out, order)
          /\ ret' = None
          /\ written' = IF keep THEN Written(written, op, ret) ELSE written
          /\ UNCHANGED nodes

\* The lookups: they borrow self immutably and return a value.
ContainsEdge(keep) ==
    /\ nops < MaxOps
    /\ \E a \in Node, b \in Node :
          Called(keep, "contains_edge", a, b, "",
                 [g |-> nodes, ret |-> contains_edge(nodes, a, b)], new)

Edge(keep) ==
    /\ nops < MaxOps
    /\ \E a \in Node, b \in Node :
          Called(keep, "edge", a, b, "", [g |-> nodes, ret |-> edge(nodes, a, b)], new)

\* neighbors(from) and edges(from), consumed to the end.
Neighbors(keep) ==
    /\ nops < MaxOps
    /\ \E from \in Node :
          Called(keep, "neighbors", from, 0, "",
                 [g |-> nodes, ret |-> neighbors(nodes, from)], new)

Edges(keep) ==
    /\ nops < MaxOps
    /\ \E from \in Node :
          Called(keep, "edges", from, 0, "",
                 [g |-> nodes, ret |-> edges(nodes, from)], new)

\* edge_mut(a, b), and a write of w through the view when there is one.
EdgeMut(keep) ==
    /\ nops < MaxOps
    /\ \E a \in Node, b \in Node, w \in Weight :
          LET view == edge_mut(nodes, a, b)
          IN Called(keep, "edge_mut", a, b, w,
                    [g |-> write_weight(nodes, a, view, w), ret |-> view], new)

\* edges_mut(from), and the writes a caller can make through the views: any
\* (N, E) pair into each entry.
EdgesMut(keep) ==
    /\ nops < MaxOps
    /\ \E from \in Node :
          LET views == edges_mut(nodes, from)
          IN \E entries \in [1..Len(views) -> Node \X Weight] :
                Called(keep, "edges_mut", from, 0, "",
                       [g |-> write_entries(nodes, from, views, entries),
                        ret |-> views], new)

\* Each action bounds the length of the call sequence by its first conjunct.
\* The calls of Spec: the structural methods, the lookups and edge_mut.
Next ==
    \/ AddNode(FALSE)
    \/ RemoveNode(FALSE)
    \/ AddEdge(FALSE)
    \/ RemoveEdge(FALSE)
    \/ AddDiedge(FALSE)
    \/ Reversed(FALSE)
    \/ ReversedAgain(FALSE)
    \/ ContainsEdge(FALSE)
    \/ Edge(FALSE)
    \/ Neighbors(FALSE)
    \/ Edges(FALSE)
    \/ EdgeMut(FALSE)

Spec == Init /\ [][Next]_vars

\* Spec with the history of the add_edge calls kept in `written`.
NextHistory ==
    \/ AddNode(TRUE)
    \/ RemoveNode(TRUE)
    \/ AddEdge(TRUE)
    \/ RemoveEdge(TRUE)
    \/ AddDiedge(TRUE)
    \/ Reversed(TRUE)
    \/ ReversedAgain(TRUE)
    \/ ContainsEdge(TRUE)
    \/ Edge(TRUE)
    \/ Neighbors(TRUE)
    \/ Edges(TRUE)
    \/ EdgeMut(TRUE)

SpecHistory == Init /\ [][NextHistory]_vars

\* Spec with the calls of edges_mut as well.
NextMut ==
    \/ AddNode(FALSE)
    \/ RemoveNode(FALSE)
    \/ AddEdge(FALSE)
    \/ RemoveEdge(FALSE)
    \/ AddDiedge(FALSE)
    \/ Reversed(FALSE)
    \/ ReversedAgain(FALSE)
    \/ ContainsEdge(FALSE)
    \/ Edge(FALSE)
    \/ Neighbors(FALSE)
    \/ Edges(FALSE)
    \/ EdgeMut(FALSE)
    \/ EdgesMut(FALSE)

SpecMut == Init /\ [][NextMut]_vars

----------------------------------------------------------------------------
(* What the properties speak of *)

\* The (source, target, weight) triples a graph stores.
Triples(g) ==
    UNION {{<<a, g[a][i][1], g[a][i][2]>> : i \in 1..Len(g[a])} : a \in DOMAIN g}

\* How many entries of a's vector have target b.
Stored(g, a, b) ==
    IF a \in DOMAIN g
    THEN Cardinality({i \in 1..Len(g[a]) : g[a][i][1] = b})
    ELSE 0

----------------------------------------------------------------------------
\* C1: no parallel edges. In every state reachable from the empty graph, the
\* adjacency vector of each key holds at most one entry per target.
NoParallelEdges ==
    \A a \in DOMAIN nodes : \A i, j \in 1..Len(nodes[a]) :
        i # j => nodes[a][i][1] # nodes[a][j][1]

\* add_edge(a, b, w) was called while a -> b was stored with another weight.
DuplicateEdgeOffered ==
    /\ op.name = "add_edge"
    /\ contains_edge(prev, op.a, op.b)
    /\ edge(prev, op.a, op.b) # Some(op.w)

\* C2: no dangling edge target. In every reachable state each target stored
\* in an adjacency vector is itself a key of the map.
NoDanglingTarget ==
    \A a \in DOMAIN nodes : \A i \in 1..Len(nodes[a]) :
        contains_node(nodes, nodes[a][i][1])

\* add_edge(a, b, w) was called with a target b that was not yet a key.
EdgeToNewTarget ==
    /\ op.name = "add_edge"
    /\ op.a # op.b
    /\ ~contains_node(prev, op.b)
    /\ contains_edge(nodes, op.a, op.b)

\* C3: add_node(n) on a node that is already a key leaves the graph as it
\* was, so n keeps its outgoing edges and their weights.
AddNodeKeepsExisting ==
    (op.name = "add_node" /\ contains_node(prev, op.a)) => nodes = prev


\* C4: add_edge is first-write-wins. add_edge(a, b, w) returns true iff no
\* edge a -> b existed before the call; when it returns true the edge a -> b
\* is stored with weight w; and when an earlier add_edge(a, b, w0) returned
\* true and no removal call came in between, the call returns false and the
\* edge a -> b still has weight w0.
FirstWriteWins ==
    op.name = "add_edge" =>
        /\ ret = ~contains_edge(prev, op.a, op.b)
        /\ ret = TRUE =>
              /\ contains_edge(nodes, op.a, op.b)
              /\ edge(nodes, op.a, op.b) = Some(op.w)
        /\ \A w0 \in Weight :
              <<op.a, op.b, w0>> \in written =>
                  /\ ret = FALSE
                  /\ edge(nodes, op.a, op.b) = Some(w0)

ReversedTwiceIsSame ==
    op.name = "reversed.reversed" =>
        /\ DOMAIN out = DOMAIN nodes
        /\ Triples(out) = Triples(nodes)

AddDiedgeReturnsOr ==
    op.name = "add_diedge" =>
        /\ ret = (~contains_edge(prev, op.a, op.b) \/ ~contains_edge(prev, op.b, op.a))
        /\ \A e \in {<<op.a, op.b>>, <<op.b, op.a>>} :
              edge(nodes, e[1], e[2]) =
                  IF contains_edge(prev, e[1], e[2])
                  THEN edge(prev, e[1], e[2])
                  ELSE Some(op.w)

\* add_diedge(a, b, w) was called with a -> b stored under another weight and
\* b -> a absent.
DiedgeOneDirectionStored ==
    /\ op.name = "add_diedge"
    /\ op.a # op.b
    /\ contains_edge(prev, op.a, op.b)
    /\ edge(prev, op.a, op.b) # Some(op.w)
    /\ ~contains_edge(prev, op.b, op.a)

\* C11: neighbors(from) and edges(from) leave the graph as it was; on a node
\* that is no key they yield the empty sequence and the node is still no
\* key; on a key, edges(from) yields its vector and neighbors(from) the
\* targets of that vector, entry by entry, so each stored edge once.
IterationOfNode ==
    /\ op.name \in {"neighbors", "edges"} =>
          /\ nodes = prev
          /\ ~contains_node(prev, op.a) =>
                ret = << >> /\ ~contains_node(nodes, op.a)
    /\ (op.name = "edges" /\ contains_node(prev, op.a)) => ret = prev[op.a]
    /\ op.name = "neighbors" =>
          /\ Len(ret) = Len(edges(prev, op.a))
          /\ \A i \in 1..Len(ret) : ret[i] = edges(prev, op.a)[i][1]
          /\ \A b \in Node :
                Cardinality({i \in 1..Len(ret) : ret[i] = b}) = Stored(prev, op.a, b)

\* neighbors(from) was called on a node with two outgoing edges.
NeighborsOfTwo ==
    /\ op.name = "neighbors"
    /\ Len(edges(prev, op.a)) >= 2

\* C12: after add_node(n), contains_node(n) is true; after remove_node(n),
\* contains_node(n) is false.
NodeAddedThenContained ==
    /\ op.name = "add_node" => contains_node(nodes, op.a)
    /\ op.name = "remove_node" => ~contains_node(nodes, op.a)

\* add_node(n) was called with an n that was no key.
NewNodeAdded ==
    /\ op.name = "add_node"
    /\ ~contains_node(prev, op.a)

\* The (source, target) pairs a graph stores.
Pairs(g) == {<<t[1], t[2]>> : t \in Triples(g)}

\* No key of g has two entries to one target.
NoParallel(g) == \A a \in Node, b \in Node : Stored(g, a, b) <= 1

\* Every target stored in g is a key of g.
NoDangling(g) == \A p \in Pairs(g) : contains_node(g, p[2])

\* C13: edges_mut(from) gives mutable access to weights only. Whatever is
\* written through the views it yields, the node set and the set of
\* (source, target) pairs stay as they were, and a graph without parallel
\* edges and dangling targets stays one.
EdgesMutWritesWeightsOnly ==
    (op.name = "edges_mut" /\ NoParallel(prev) /\ NoDangling(prev)) =>
        /\ DOMAIN nodes = DOMAIN prev
        /\ Pairs(nodes) = Pairs(prev)
        /\ NoParallel(nodes)
        /\ NoDangling(nodes)

\* The abstract graph a concrete graph stands for: its node set and its set
\* of (source, target, weight) triples.
Abs(g) == [keys |-> DOMAIN g, triples |-> Triples(g)]

\* The orders a vector's entries can be in.
Orders(es) ==
    {[i \in 1..Len(es) |-> es[p[i]]] :
        p \in {q \in [1..Len(es) -> 1..Len(es)] :
                  \A i, j \in 1..Len(es) : i # j => q[i] # q[j]}}

\* The concrete graphs with the abstract graph of g: same keys, each vector
\* in any order.
RECURSIVE ReorderingsOver(_, _)
ReorderingsOver(g, ks) ==
    IF ks = {} THEN {g}
    ELSE LET a == CHOOSE x \in ks : TRUE
         IN UNION {{[h EXCEPT ![a] = es] : es \in Orders(g[a])} :
                      h \in ReorderingsOver(g, ks \ {a})}

Reorderings(g) == ReorderingsOver(g, DOMAIN g)

RemoveEdgeRemovesOnlyIt ==
    op.name = "remove_edge" =>
        /\ DOMAIN nodes = DOMAIN prev
        /\ Triples(nodes) =
              {t \in Triples(prev) : ~(t[1] = op.a /\ t[2] = op.b)}
        /\ \A x \in DOMAIN prev : x # op.a => nodes[x] = prev[x]
        /\ ~contains_edge(prev, op.a, op.b) => nodes = prev

\* remove_edge(a, b) removed the only edge of a.
RemovedOnlyEdge ==
    /\ op.name = "remove_edge"
    /\ ret # None
    /\ Len(prev[op.a]) = 1
    /\ Triples(nodes) # {}

\* C16: remove_node(n) returns true iff n was a key. When n was no key the
\* graph is as it was; when it was, the other keys stay keys and exactly the
\* edges with source n or target n are gone, the others keep their weight.
RemoveNodeRemovesOnlyIts ==
    op.name = "remove_node" =>
        /\ ret = contains_node(prev, op.a)
        /\ ret = FALSE => nodes = prev
        /\ DOMAIN nodes = DOMAIN prev \ {op.a}
        /\ Triples(nodes) =
              {t \in Triples(prev) : t[1] # op.a /\ t[2] # op.a}

\* remove_node(n) removed a node from a graph in which some other node had
\* an edge to n and an edge to another node.
RemovedNodeBesideEdge ==
    /\ op.name = "remove_node"
    /\ ret = TRUE
    /\ \E x \in DOMAIN prev \ {op.a} :
          /\ contains_edge(prev, x, op.a)
          /\ \E y \in Node : y # op.a /\ contains_edge(prev, x, y)

AddEdgeAddsOnlyIt ==
    op.name = "add_edge" =>
        /\ DOMAIN nodes = DOMAIN prev \cup {op.a, op.b}
        /\ Triples(prev) \subseteq Triples(nodes)
        /\ Triples(nodes) \ Triples(prev) \subseteq {<<op.a, op.b, op.w>>}
        /\ \A x \in DOMAIN prev : x # op.a => nodes[x] = prev[x]

\* add_edge(a, b, w) added an edge to a node b that had outgoing edges.
EdgeToNodeWithEdges ==
    /\ op.name = "add_edge"
    /\ ret = TRUE
    /\ op.a # op.b
    /\ Len(edges(prev, op.b)) > 0

\* The nodes of g that are the source or the target of an edge of g.
Endpoints(g) == {t[1] : t \in Triples(g)} \cup {t[2] : t \in Triples(g)}

====
